---- MODULE Spec2Model ----
(***************************************************************************)
(* A model of the flashcard study application (Django).                    *)
(*                                                                         *)
(*   flashcards/utils.py   calculate_next_review   the SM-2 scheduler      *)
(*                         get_due_cards, get_study_stats                  *)
(*   flashcards/views.py   study_session, submit_review, the stats views   *)
(*   flashcards/models.py  Deck, Card, StudySession, Review, Partnership,  *)
(*                         PartnershipInvitation                           *)
(*                                                                         *)
(* Numbers.  ease_factor is a Python float; every SM-2 adjustment is a     *)
(* multiple of 0.02, so the model holds it in hundredths (2.5 is 250).     *)
(* round() is Python's round-half-to-even, taken on the exact product.     *)
(* The binary representation error of the float is not modelled: it can    *)
(* change the result only when interval * ease_factor is an exact .5 tie.  *)
(* Time is counted in whole days: timezone.now() is the variable clock and *)
(* timedelta(days = n) is n.                                               *)
(***************************************************************************)
EXTENDS Integers, Sequences, FiniteSets, TLC

\* ------------------------------------------------------------------ bounds
MaxClock == 1
MaxSteps == 5
MaxEase == 300
MaxInterval == 12
MaxReps == 3
MaxRequests == 2
MaxSessions == 1
MaxDeckCards == 3
MaxNextReview == 3
MaxPartnerships == 2
MaxInvitations == 2
MaxInviteClock == 8
MaxCodes == 4

\* ------------------------------------------------------- program constants
DefaultEase == 250
DefaultInterval == 1
DefaultRepetitions == 0
MinEase == 130
PassQuality == 3
SecondInterval == 6
MaxQuality == 5
InvitationDays == 7

VARIABLES
    clock,      \* timezone.now(), in days
    \* --- one progress record under repeated calls of calculate_next_review
    progress,   \* the record passed to calculate_next_review, updated in place
    prior,      \* its fields when the last call began
    quality,    \* the quality argument of the last call
    calledAt,   \* timezone.now() as the last call read it
    steps,      \* calls made so far
    history,    \* the quality arguments of the calls so far, in order
    \* --- the database
    cards,      \* Card rows: the scheduling fields of each card
    sessions,   \* StudySession rows, by id
    reviews,    \* Review rows, in insertion order
    \* --- request handlers running submit_review
    pc,         \* each handler's position in submit_review
    req,        \* the request it is serving
    card,       \* its local Card object
    session,    \* its local StudySession object
    resp,       \* the response it returns
    committed,  \* the writes of this request already in the database
    received,   \* submit_review requests received so far
    \* --- the due-card query
    dueRows,    \* Card rows of the queried decks: deck and next_review
    due,        \* the last result of get_due_cards
    \* --- accounts, partnerships and invitations
    accounts,       \* User rows
    partnerships,   \* Partnership rows, by id
    invitations,    \* PartnershipInvitation rows, by id
    \* --- PartnershipInvitation.generate_code
    gen,        \* the call of generate_code in progress, if any
    codes       \* the code column of the invitation rows, in insertion order

schedVars == <<progress, prior, quality, calledAt, steps, history>>
dbVars == <<cards, sessions, reviews>>
handlerVars == <<pc, req, card, session, resp, committed, received>>
dueVars == <<dueRows, due>>
shareVars == <<accounts, partnerships, invitations>>
genVars == <<gen, codes>>
vars == <<clock, progress, prior, quality, calledAt, steps, history, cards, sessions,
          reviews, pc, req, card, session, resp, committed, received,
          dueRows, due, accounts, partnerships, invitations, gen, codes>>

\* ---------------------------------------------------------- the scheduler

\* Python's round(n / d) for n >= 0, d > 0: half to even.
PyRound(n, d) ==
    LET q == n \div d
        r == n % d
    IN  IF 2 * r < d THEN q
        ELSE IF 2 * r > d THEN q + 1
        ELSE IF q % 2 = 0 THEN q ELSE q + 1

EaseDeltaNoSquare(q) == 10 - (MaxQuality - q) * 8

\* 0.1 - (5 - q) * (0.08 + (5 - q) * 0.02), in hundredths.
EaseDelta(q) == 10 - (MaxQuality - q) * (8 + (MaxQuality - q) * 2)

Max(a, b) == IF a >= b THEN a ELSE b

NewEaseNoFloor(ease, q) == ease + EaseDelta(q)

NewEase(ease, q) == Max(MinEase, ease + EaseDelta(q))

NewIntervalOffByOne(p, q) ==
    IF q < PassQuality THEN 1
    ELSE IF p.repetitions = 0 THEN SecondInterval
    ELSE IF p.repetitions = 1 THEN SecondInterval
    ELSE PyRound(p.interval * p.ease_factor, 100)

NewInterval(p, q) ==
    IF q < PassQuality THEN 1
    ELSE IF p.repetitions = 0 THEN 1
    ELSE IF p.repetitions = 1 THEN SecondInterval
    ELSE PyRound(p.interval * p.ease_factor, 100)

NewRepetitionsNoReset(p, q) == p.repetitions + 1

NewRepetitions(p, q) ==
    IF q < PassQuality THEN 0 ELSE p.repetitions + 1

NextReviewFromPrior(p, q, now) == now + p.interval

NextReview(p, q, now) == now + NewInterval(p, q)

calculate_next_review(p, q, now) ==
    [ease_factor |-> NewEase(p.ease_factor, q),
     interval    |-> NewInterval(p, q),
     repetitions |-> NewRepetitions(p, q),
     next_review |-> NextReview(p, q, now)]

\* A new record: the field defaults, next_review = the time of creation.
Fresh(now) ==
    [ease_factor |-> DefaultEase, interval |-> DefaultInterval,
     repetitions |-> DefaultRepetitions, next_review |-> now]

Qualities == 0 .. MaxQuality

\* One call of calculate_next_review on the record, at the current time.
ScheduleCall(q) ==
    /\ prior' = progress
    /\ quality' = q
    /\ calledAt' = clock
    /\ progress' = calculate_next_review(progress, q, clock)
    /\ steps' = steps + 1
    /\ history' = Append(history, q)
    /\ UNCHANGED <<dueVars, shareVars, genVars, clock, dbVars, handlerVars>>


Tick ==
    /\ clock < MaxClock
    /\ clock' = clock + 1
    /\ UNCHANGED <<dueVars, shareVars, schedVars, genVars, dbVars, handlerVars>>

\* ------------------------------------------------------------ the database

Users == {"A", "B"}

\* Deck.user of deck 1, 2: the owner.
DeckUser == <<"A", "B">>

\* Card.deck of card 1, 2.
CardDeck == <<1, 2>>

Decks == DOMAIN DeckUser
Cards == DOMAIN CardDeck

\* UserCardProgress.DIRECTION_CHOICES.
Directions == {"A_TO_B", "B_TO_A"}

\* A card id that names no Card row.
NoSuchCard == Len(CardDeck) + 1

\* ---------------------------------------------------------- request bodies

\* An optional JSON value: <<>> is null or an absent key, <<v>> is v.
None == <<>>
Some(v) == <<v>>

\* JSON values of "quality": kind is the Python type json.loads gives.
NoQuality == [kind |-> "none", val |-> 0]
IntQ(v) == [kind |-> "int", val |-> v]
BoolQ(v) == [kind |-> "bool", val |-> v]
StrQ(v) == [kind |-> "str", val |-> v]

\* bool is a subclass of int: True is 1, False is 0 in comparisons and arithmetic.
QualityInputs ==
    {NoQuality, IntQ(-1), IntQ(MaxQuality + 1), BoolQ(1), StrQ(4), IntQ(2), IntQ(5)}

\* isinstance(quality, int)
IsInstanceInt(q) == q.kind \in {"int", "bool"}

\* quality is None or not isinstance(quality, int) or quality < 0 or quality > 5
QualityRejected(q) ==
    \/ q.kind = "none"
    \/ ~IsInstanceInt(q)
    \/ q.val < 0
    \/ q.val > MaxQuality

\* `if session_id:` None and 0 are falsy.
Truthy(sid) == sid # None /\ sid[1] # 0

SessionIdInputs == {None} \cup {Some(i) : i \in 1 .. MaxSessions + 1}

\* time_taken = data.get('time_taken', 0); null stays None.
TimeTakenInputs == {None, Some(7)}

NoRequest ==
    [user |-> "A", card_id |-> NoSuchCard, json_ok |-> FALSE,
     quality |-> NoQuality, session_id |-> None, time_taken |-> None]

NoCard == [ease_factor |-> 0, interval |-> 0, repetitions |-> 0, next_review |-> 0]
NoSession == [id |-> 0, cards_studied |-> 0]
NoResponse == [code |-> "NONE", data |-> NoCard]

Workers == {1, 2}

\* Card.objects.get(id = card_id, deck__user = user) finds a row.
CardFound(u, c) == c \in Cards /\ DeckUser[CardDeck[c]] = u

\* StudySession.objects.get(id = sid, user = user) finds a row.
SessionFound(u, sid) ==
    /\ sid \in DOMAIN sessions
    /\ sessions[sid].user = u

\* The requests: a body that is not JSON has no fields, and the body of a
\* request whose card is not found is never parsed (one body stands for all).
Requests ==
    {r \in [user : Users, card_id : Cards, json_ok : BOOLEAN,
            quality : QualityInputs, session_id : SessionIdInputs,
            time_taken : TimeTakenInputs] :
        (~r.json_ok \/ ~CardFound(r.user, r.card_id)) =>
            (r.quality = NoQuality /\ r.session_id = None /\ r.time_taken = None)}

\* The scheduling state the application holds for user u studying card c in
\* direction d: the fields of the Card row that the user's queries reach.
ProgressOf(u, c, d) == IF CardFound(u, c) THEN cards[c] ELSE NoCard


\* ------------------------------------------------ study_session, POST branch

\* Deck.objects.get(id = deck_id, user = user), then StudySession.objects.create.
\* A deck that is not the user's answers NOT_FOUND and changes nothing.
StartSession(u, d) ==
    /\ Len(sessions) < MaxSessions
    /\ DeckUser[d] = u
    /\ sessions' = Append(sessions, [user |-> u, deck |-> d, cards_studied |-> 0])
    /\ UNCHANGED <<dueVars, shareVars, clock, schedVars, genVars, cards, reviews, handlerVars>>

\* ------------------------------------------------------------ submit_review
\* No transaction surrounds the handler: every ORM call commits on its own,
\* and handlers of concurrent requests interleave between the calls.

Finish(w, code, data) ==
    /\ pc' = [pc EXCEPT ![w] = "done"]
    /\ resp' = [resp EXCEPT ![w] = [code |-> code, data |-> data]]

\* Card.objects.get, json.loads, the data.get calls and the quality check.
\* Handlers are interchangeable: a request goes to the first free one.
SR_Receive(w, r) ==
    /\ pc[w] = "idle"
    /\ \A v \in Workers : v < w => pc[v] # "idle"
    /\ received < MaxRequests
    /\ received' = received + 1
    /\ req' = [req EXCEPT ![w] = r]
    /\ committed' = [committed EXCEPT ![w] = {}]
    /\ IF ~CardFound(r.user, r.card_id)
         THEN Finish(w, "NOT_FOUND", NoCard) /\ UNCHANGED card
       ELSE IF ~r.json_ok
         THEN Finish(w, "INVALID_JSON", NoCard) /\ UNCHANGED card
       ELSE IF QualityRejected(r.quality)
         THEN Finish(w, "INVALID_INPUT", NoCard) /\ UNCHANGED card
       ELSE /\ card' = [card EXCEPT ![w] = cards[r.card_id]]
            /\ pc' = [pc EXCEPT ![w] = "save"]
            /\ UNCHANGED resp
    /\ UNCHANGED <<dueVars, shareVars, clock, schedVars, genVars, dbVars, session>>

\* card = calculate_next_review(card, quality); card.save()
SR_Save(w) ==
    /\ pc[w] = "save"
    /\ card' = [card EXCEPT ![w] =
                   calculate_next_review(card[w], req[w].quality.val, clock)]
    /\ cards' = [cards EXCEPT ![req[w].card_id] = card'[w]]
    /\ committed' = [committed EXCEPT ![w] = @ \cup {"progress"}]
    /\ pc' = [pc EXCEPT ![w] = "session"]
    /\ UNCHANGED <<dueVars, shareVars, clock, schedVars, genVars, sessions, reviews, req, session, resp, received>>

\* if session_id: session = StudySession.objects.get(id = session_id, user = user)
\* except StudySession.DoesNotExist: pass
SR_GetSessionStrict(w) ==
    /\ pc[w] = "session"
    /\ IF ~Truthy(req[w].session_id)
         THEN Finish(w, "OK", card[w]) /\ UNCHANGED session
       ELSE IF ~SessionFound(req[w].user, req[w].session_id[1])
         THEN Finish(w, "NOT_FOUND", NoCard) /\ UNCHANGED session
       ELSE /\ session' = [session EXCEPT ![w] =
                   [id |-> req[w].session_id[1],
                    cards_studied |-> sessions[req[w].session_id[1]].cards_studied]]
            /\ pc' = [pc EXCEPT ![w] = "create"]
            /\ UNCHANGED resp
    /\ UNCHANGED <<dueVars, shareVars, clock, schedVars, genVars, dbVars, req, card, committed, received>>

SR_GetSession(w) ==
    /\ pc[w] = "session"
    /\ IF ~Truthy(req[w].session_id)
         THEN Finish(w, "OK", card[w]) /\ UNCHANGED session
       ELSE IF ~SessionFound(req[w].user, req[w].session_id[1])
         THEN Finish(w, "OK", card[w]) /\ UNCHANGED session
       ELSE /\ session' = [session EXCEPT ![w] =
                   [id |-> req[w].session_id[1],
                    cards_studied |-> sessions[req[w].session_id[1]].cards_studied]]
            /\ pc' = [pc EXCEPT ![w] = "create"]
            /\ UNCHANGED resp
    /\ UNCHANGED <<dueVars, shareVars, clock, schedVars, genVars, dbVars, req, card, committed, received>>

\* Review.objects.create(card, session, quality, time_taken).  time_taken is
\* a NOT NULL IntegerField: a null raises IntegrityError, which no except
\* clause of the handler catches, and the request ends in a server error.
SR_CreateReview(w) ==
    /\ pc[w] = "create"
    /\ IF req[w].time_taken = None
         THEN /\ Finish(w, "SERVER_ERROR", NoCard)
              /\ UNCHANGED <<reviews, committed>>
       ELSE /\ reviews' = Append(reviews,
                   [card |-> req[w].card_id, session |-> session[w].id,
                    quality |-> req[w].quality.val,
                    reviewed_at |-> clock,
                    time_taken |-> req[w].time_taken[1]])
            /\ committed' = [committed EXCEPT ![w] = @ \cup {"review"}]
            /\ pc' = [pc EXCEPT ![w] = "count"]
            /\ UNCHANGED resp
    /\ UNCHANGED <<dueVars, shareVars, clock, schedVars, genVars, cards, sessions, req, card, session, received>>

SR_SessionSaveTwice(w) ==
    /\ pc[w] = "count"
    /\ session' = [session EXCEPT ![w].cards_studied = @ + 2]
    /\ sessions' = [sessions EXCEPT ![session[w].id].cards_studied =
                       session'[w].cards_studied]
    /\ committed' = [committed EXCEPT ![w] = @ \cup {"counter"}]
    /\ Finish(w, "OK", card[w])
    /\ UNCHANGED <<dueVars, shareVars, clock, schedVars, genVars, cards, reviews, req, card, received>>

\* session.cards_studied += 1; session.save()
SR_SessionSave(w) ==
    /\ pc[w] = "count"
    /\ session' = [session EXCEPT ![w].cards_studied = @ + 1]
    /\ sessions' = [sessions EXCEPT ![session[w].id].cards_studied =
                       session'[w].cards_studied]
    /\ committed' = [committed EXCEPT ![w] = @ \cup {"counter"}]
    /\ Finish(w, "OK", card[w])
    /\ UNCHANGED <<dueVars, shareVars, clock, schedVars, genVars, cards, reviews, req, card, received>>

\* The response is returned; the handler is free for the next request.
SR_Return(w) ==
    /\ pc[w] = "done"
    /\ pc' = [pc EXCEPT ![w] = "idle"]
    /\ req' = [req EXCEPT ![w] = NoRequest]
    /\ card' = [card EXCEPT ![w] = NoCard]
    /\ session' = [session EXCEPT ![w] = NoSession]
    /\ resp' = [resp EXCEPT ![w] = NoResponse]
    /\ committed' = [committed EXCEPT ![w] = {}]
    /\ UNCHANGED <<dueVars, shareVars, clock, schedVars, genVars, dbVars, received>>

\* ------------------------------------------------------------ get_due_cards

DueCardIds == 1 .. MaxDeckCards

NoDue == [deck |-> 0, as_of |-> 0, cards |-> <<>>]

IsDueStrict(next_review, now) == next_review < now

\* next_review__lte = timezone.now()
IsDue(next_review, now) == next_review <= now

\* deck.cards.filter(next_review__lte = timezone.now())
DueSet(d, now) ==
    {c \in DueCardIds :
        dueRows[c].deck = d /\ IsDue(dueRows[c].next_review, now)}

\* The sequences that list every element of S once.
Orderings(S) ==
    {s \in [1 .. Cardinality(S) -> S] :
        \A i, j \in 1 .. Cardinality(S) : i # j => s[i] # s[j]}

\* .order_by('next_review'): ascending by next_review and by nothing else;
\* rows with equal next_review come in whatever order the database gives.
get_due_cards(d, now) ==
    {s \in Orderings(DueSet(d, now)) :
        \A i \in 1 .. Cardinality(DueSet(d, now)) - 1 :
            dueRows[s[i]].next_review <= dueRows[s[i + 1]].next_review}

\* study_session, GET branch, by the owner of deck d.
GetDueCards(d) ==
    /\ \E s \in get_due_cards(d, clock) :
           due' = [deck |-> d, as_of |-> clock, cards |-> s]
    /\ UNCHANGED <<dueRows, shareVars, clock, schedVars, genVars, dbVars, handlerVars>>

\* ----------------------------------------------- partnerships, invitations

\* The accounts: the deck owners and one more user, who owns no deck.
People == Users \cup {"C"}

\* Deck.created_by: deck 1 as the decks of the partnership flow, created by
\* their owner; deck 2 as deck_create leaves it, NULL.
DeckCreator == <<Some("A"), None>>

\* The rows of a table that are not deleted.
Live(table) == {i \in DOMAIN table : ~table[i].deleted}

has_member(p, user) == user \in {p.user_a, p.user_b}

\* raise ValueError: no user is returned.
NotAMember == [ok |-> FALSE, user |-> "nobody"]

get_partnerSame(p, user) ==
    IF user = p.user_a THEN [ok |-> TRUE, user |-> p.user_a]
    ELSE IF user = p.user_b THEN [ok |-> TRUE, user |-> p.user_b]
    ELSE NotAMember

get_partner(p, user) ==
    IF user = p.user_a THEN [ok |-> TRUE, user |-> p.user_b]
    ELSE IF user = p.user_b THEN [ok |-> TRUE, user |-> p.user_a]
    ELSE NotAMember

\* deck.partnerships.filter(is_active = True)
ActivePartnershipsOf(d) ==
    {i \in Live(partnerships) :
        partnerships[i].is_active /\ d \in partnerships[i].decks}

\* .first() of a queryset without an order: the row with the lowest id.
First(S) == CHOOSE i \in S : \A j \in S : i <= j

is_shared(d) == ActivePartnershipsOf(d) # {}

can_editOwnOnly(d, user) ==
    \/ DeckCreator[d] = Some(user)
    \/ DeckUser[d] = user

can_edit(d, user) ==
    \/ DeckCreator[d] = Some(user)
    \/ DeckUser[d] = user
    \/ /\ ActivePartnershipsOf(d) # {}
       /\ has_member(partnerships[First(ActivePartnershipsOf(d))], user)

can_view(d, user) == can_edit(d, user)

is_valid(inv, now) == inv.accepted_by = None /\ inv.expires_at > now

\* PartnershipInvitation.objects.create(inviter = u)
Invite(u) ==
    /\ u \in accounts
    /\ Len(invitations) < MaxInvitations
    /\ invitations' = Append(invitations,
           [inviter |-> u, expires_at |-> clock + InvitationDays,
            accepted_by |-> None, accepted_at |-> None, deleted |-> FALSE])
    /\ UNCHANGED <<dueVars, accounts, partnerships, clock, schedVars, genVars, dbVars, handlerVars>>

\* The active partnerships between x and y, in either order.
Linking(x, y) ==
    {i \in Live(partnerships) :
        /\ partnerships[i].is_active
        /\ {partnerships[i].user_a, partnerships[i].user_b} = {x, y}}

\* unique_together (user_a, user_b): the ordered pair, dissolved rows included.
PairTaken(a, b) ==
    \E i \in Live(partnerships) :
        partnerships[i].user_a = a /\ partnerships[i].user_b = b

\* Partnership.objects.create(user_a = a, user_b = b)
CreatePartnership(a, b) ==
    /\ ~PairTaken(a, b)
    /\ Len(partnerships) < MaxPartnerships
    /\ partnerships' = Append(partnerships,
           [user_a |-> a, user_b |-> b, is_active |-> TRUE,
            decks |-> {}, deleted |-> FALSE])

MarkAccepted(code, u) ==
    invitations' = [invitations EXCEPT ![code].accepted_by = Some(u),
                                       ![code].accepted_at = Some(clock)]

AcceptNoLookup(code, u) ==
    /\ code \in Live(invitations)
    /\ u \in accounts
    /\ is_valid(invitations[code], clock)
    /\ u # invitations[code].inviter
    /\ CreatePartnership(invitations[code].inviter, u)
    /\ MarkAccepted(code, u)
    /\ UNCHANGED <<dueVars, accounts, clock, schedVars, genVars, dbVars, handlerVars>>

AcceptBySelf(code, u) ==
    /\ code \in Live(invitations)
    /\ u \in accounts
    /\ is_valid(invitations[code], clock)
    /\ IF Linking(invitations[code].inviter, u) # {}
         THEN UNCHANGED partnerships
         ELSE CreatePartnership(invitations[code].inviter, u)
    /\ MarkAccepted(code, u)
    /\ UNCHANGED <<dueVars, accounts, clock, schedVars, genVars, dbVars, handlerVars>>

\* Redemption of an invitation code by u: a pending, unexpired invitation, a
\* redeemer other than the inviter; the active partnership of the two users is
\* reused when there is one (looked up in either order), else one is created.
Accept(code, u) ==
    /\ code \in Live(invitations)
    /\ u \in accounts
    /\ is_valid(invitations[code], clock)
    /\ u # invitations[code].inviter
    /\ IF Linking(invitations[code].inviter, u) # {}
         THEN UNCHANGED partnerships
         ELSE CreatePartnership(invitations[code].inviter, u)
    /\ MarkAccepted(code, u)
    /\ UNCHANGED <<dueVars, accounts, clock, schedVars, genVars, dbVars, handlerVars>>

\* partnership.decks.add(deck), for a deck of a member.
AddDeck(p, d) ==
    /\ p \in Live(partnerships)
    /\ partnerships[p].is_active
    /\ has_member(partnerships[p], DeckUser[d])
    /\ d \notin partnerships[p].decks
    /\ partnerships' = [partnerships EXCEPT ![p].decks = @ \cup {d}]
    /\ UNCHANGED <<dueVars, accounts, invitations, clock, schedVars, genVars, dbVars, handlerVars>>

\* partnership.is_active = False; partnership.save(); partnership.decks.clear()
Dissolve(p) ==
    /\ p \in Live(partnerships)
    /\ partnerships[p].is_active
    /\ partnerships' = [partnerships EXCEPT ![p].is_active = FALSE,
                                            ![p].decks = {}]
    /\ UNCHANGED <<dueVars, accounts, invitations, clock, schedVars, genVars, dbVars, handlerVars>>

\* User.delete() of a user who owns no deck: on_delete = CASCADE removes the
\* user's partnerships and the invitations the user sent, on_delete = SET_NULL
\* empties accepted_by of the invitations the user accepted.
DeleteUser(u) ==
    /\ u \in accounts
    /\ accounts' = accounts \ {u}
    /\ partnerships' =
           [i \in DOMAIN partnerships |->
               IF ~partnerships[i].deleted /\ has_member(partnerships[i], u)
                 THEN [partnerships[i] EXCEPT !.deleted = TRUE,
                                              !.is_active = FALSE,
                                              !.decks = {}]
                 ELSE partnerships[i]]
    /\ invitations' =
           [i \in DOMAIN invitations |->
               IF invitations[i].deleted THEN invitations[i]
               ELSE IF invitations[i].inviter = u
                 THEN [invitations[i] EXCEPT !.deleted = TRUE]
               ELSE IF invitations[i].accepted_by = Some(u)
                 THEN [invitations[i] EXCEPT !.accepted_by = None]
               ELSE invitations[i]]
    /\ UNCHANGED <<dueVars, clock, schedVars, genVars, dbVars, handlerVars>>

\* Time passes, up to past the expiry of an invitation.
Later ==
    /\ clock < MaxInviteClock
    /\ clock' = clock + 1
    /\ UNCHANGED <<dueVars, shareVars, schedVars, genVars, dbVars, handlerVars>>

\* ------------------------------------------------------------ generate_code

\* The codes generate_code can draw: a small code space stands for the
\* 6-character codes over A-Z and 0-9.
Codes == 1 .. MaxCodes

NoCode == 0

GenIdle == [pc |-> "idle", inviter |-> "nobody", code |-> NoCode]

\* PartnershipInvitation.objects.filter(code = c).exists()
CodeExists(c) == \E i \in DOMAIN codes : codes[i] = c

\* PartnershipInvitation.objects.create(inviter = u): save() finds the code
\* empty and calls generate_code.
GC_Start(u) ==
    /\ gen.pc = "idle"
    /\ gen' = [pc |-> "draw", inviter |-> u, code |-> NoCode]
    /\ UNCHANGED <<codes, dueVars, shareVars, clock, schedVars, dbVars, handlerVars>>

\* One pass of the loop of generate_code, drawing c: a code that exists sends
\* the loop round again; a code that does not is returned and the row is saved
\* with it.
GC_Draw(c) ==
    /\ gen.pc = "draw"
    /\ IF CodeExists(c)
         THEN /\ gen' = [gen EXCEPT !.code = c]
              /\ UNCHANGED codes
         ELSE /\ codes' = Append(codes, c)
              /\ gen' = GenIdle
    /\ UNCHANGED <<dueVars, shareVars, clock, schedVars, dbVars, handlerVars>>

\* ----------------------------------------------------------- get_study_stats

\* deck = None
NoDeck == 0

\* Deck.objects.filter(user = user).distinct()
personal_decks(user) == {d \in Decks : DeckUser[d] = user}

\* Q(partnerships__user_a = user, partnerships__is_active = True) |
\* Q(partnerships__user_b = user, partnerships__is_active = True):
\* one partnership row of the deck satisfies it.
SharedWith(d, user) ==
    \E p \in Live(partnerships) :
        /\ d \in partnerships[p].decks
        /\ \/ partnerships[p].user_a = user /\ partnerships[p].is_active
           \/ partnerships[p].user_b = user /\ partnerships[p].is_active

shared_decksWithOwn(user) == {d \in Decks : SharedWith(d, user)}

\* Deck.objects.filter(Q(...) | Q(...)).exclude(user = user).distinct()
shared_decks(user) == {d \in Decks : SharedWith(d, user) /\ DeckUser[d] # user}

\* personal_decks | shared_decks
user_decks(user) == personal_decks(user) \cup shared_decks(user)

\* Card.objects.filter(deck__in = ds)
CardsOf(ds) == {c \in Cards : CardDeck[c] \in ds}

\* Review.objects.filter(session__user = user)
ReviewsOfUser(user) ==
    {i \in DOMAIN reviews : sessions[reviews[i].session].user = user}

StatsReviewsAnyUser(user, deck, deck_filter) ==
    IF deck # NoDeck
      THEN {i \in DOMAIN reviews : CardDeck[reviews[i].card] = deck}
    ELSE IF deck_filter # None
      THEN {i \in DOMAIN reviews : CardDeck[reviews[i].card] \in deck_filter[1]}
    ELSE DOMAIN reviews

\* The queryset reviews of the three branches.
StatsReviews(user, deck, deck_filter) ==
    IF deck # NoDeck
      THEN {i \in DOMAIN reviews : CardDeck[reviews[i].card] = deck}
    ELSE IF deck_filter # None
      THEN {i \in ReviewsOfUser(user) :
               CardDeck[reviews[i].card] \in deck_filter[1]}
    ELSE ReviewsOfUser(user)

\* The queryset cards of the three branches.
StatsCards(user, deck, deck_filter) ==
    IF deck # NoDeck THEN CardsOf({deck})
    ELSE IF deck_filter # None THEN CardsOf(deck_filter[1])
    ELSE CardsOf(user_decks(user))

StatsTotalDecks(user, deck, deck_filter) ==
    IF deck # NoDeck THEN 1
    ELSE IF deck_filter # None THEN Cardinality(deck_filter[1])
    ELSE Cardinality(user_decks(user))

\* aggregate(Sum(field)) over the reviews R
RECURSIVE SumField(_, _)
SumField(R, field) ==
    IF R = {} THEN 0
    ELSE LET i == CHOOSE i \in R : TRUE
         IN  reviews[i][field] + SumField(R \ {i}, field)

\* round(Avg('quality') or 0, 2), in hundredths
AverageQuality(R) ==
    IF R = {} THEN 0
    ELSE PyRound(100 * SumField(R, "quality"), Cardinality(R))

\* The reviews of R made on the day now - i.
DayReviews(R, now, i) == {r \in R : reviews[r].reviewed_at = now - i}

\* recent_activity: the last 7 days, the oldest first.
RecentActivity(R, now) ==
    [k \in 1 .. 7 |->
        [date |-> now - (7 - k),
         cards_studied |-> Cardinality(DayReviews(R, now, 7 - k)),
         time_spent |-> SumField(DayReviews(R, now, 7 - k), "time_taken")]]

\* The part of the statistics that is computed from the reviews R.
ReviewStats(R, now) ==
    [total_reviews |-> Cardinality(R),
     average_quality |-> AverageQuality(R),
     study_streak_days |->
         IF \E r \in R : reviews[r].reviewed_at >= now - 1 THEN 1 ELSE 0,
     recent_activity |-> RecentActivity(R, now)]

get_study_stats(user, deck, deck_filter, now) ==
    ReviewStats(StatsReviews(user, deck, deck_filter), now)
    @@ [total_cards |-> Cardinality(StatsCards(user, deck, deck_filter)),
        cards_due_today |->
            Cardinality({c \in StatsCards(user, deck, deck_filter) :
                            cards[c].next_review <= now}),
        total_decks |-> StatsTotalDecks(user, deck, deck_filter)]
    @@ IF deck = NoDeck /\ deck_filter = None
         THEN [personal_decks |-> Cardinality(personal_decks(user)),
               shared_decks |-> Cardinality(shared_decks(user)),
               personal_cards |-> Cardinality(CardsOf(personal_decks(user))),
               shared_cards |-> Cardinality(CardsOf(shared_decks(user)))]
         ELSE <<>>

\* GET /api/stats/
user_stats(user) == get_study_stats(user, NoDeck, None, clock)

\* Deck.objects.get(id = d, user = user) finds a row.
DeckFound(user, d) == d \in Decks /\ DeckUser[d] = user

\* GET /api/decks/<deck_id>/stats/: the deck is looked up among the user's own.
deck_stats(user, d) ==
    IF DeckFound(user, d)
      THEN [code |-> "OK", data |-> get_study_stats(user, d, None, clock)]
      ELSE [code |-> "NOT_FOUND", data |-> <<>>]

\* ----------------------------------------------------------- specifications

InitDueIdle ==
    /\ dueRows = [c \in DueCardIds |-> [deck |-> 1, next_review |-> 0]]
    /\ due = NoDue

InitGenIdle ==
    /\ gen = GenIdle
    /\ codes = <<>>

InitShare ==
    /\ accounts = People
    /\ partnerships = <<>>
    /\ invitations = <<>>

InitDb ==
    /\ cards = [c \in Cards |-> Fresh(0)]
    /\ sessions = <<>>
    /\ reviews = <<>>

InitHandlers ==
    /\ pc = [w \in Workers |-> "idle"]
    /\ req = [w \in Workers |-> NoRequest]
    /\ card = [w \in Workers |-> NoCard]
    /\ session = [w \in Workers |-> NoSession]
    /\ resp = [w \in Workers |-> NoResponse]
    /\ committed = [w \in Workers |-> {}]
    /\ received = 0

InitSchedFresh ==
    /\ progress = Fresh(0)
    /\ prior = Fresh(0)
    /\ quality = 0
    /\ calledAt = 0
    /\ steps = 0
    /\ history = <<>>

\* The application: sessions are started and reviews submitted concurrently.
Init ==
    /\ clock = 0
    /\ InitSchedFresh
    /\ InitDb
    /\ InitHandlers
    /\ InitDueIdle
    /\ InitShare
    /\ InitGenIdle

Next ==
    \/ Tick
    \/ \E u \in Users, d \in Decks : StartSession(u, d)
    \/ \E w \in Workers, r \in Requests : SR_Receive(w, r)
    \/ \E w \in Workers : SR_Save(w)
    \/ \E w \in Workers : SR_GetSession(w)
    \/ \E w \in Workers : SR_CreateReview(w)
    \/ \E w \in Workers : SR_SessionSave(w)
    \/ \E w \in Workers : SR_Return(w)

Spec == Init /\ [][Next]_vars

\* The application with requests handled one at a time: a single handler.
FirstWorker == CHOOSE w \in Workers : \A v \in Workers : w <= v

NextSerial ==
    \/ Tick
    \/ \E u \in Users, d \in Decks : StartSession(u, d)
    \/ \E r \in Requests : SR_Receive(FirstWorker, r)
    \/ SR_Save(FirstWorker)
    \/ SR_GetSession(FirstWorker)
    \/ SR_CreateReview(FirstWorker)
    \/ SR_SessionSave(FirstWorker)
    \/ SR_Return(FirstWorker)

SpecSerial == Init /\ [][NextSerial]_vars

\* Study with reviews that are recorded: requests one at a time, with a body
\* that passes the checks when the card is the user's, and requests for
\* another user's card.
StatsRequests ==
    {r \in Requests :
        CardFound(r.user, r.card_id) =>
            /\ r.json_ok
            /\ r.quality \in {IntQ(2), IntQ(5)}
            /\ r.session_id # None
            /\ r.time_taken # None}

NextStats ==
    \/ Tick
    \/ \E u \in Users, d \in Decks : StartSession(u, d)
    \/ \E r \in StatsRequests : SR_Receive(FirstWorker, r)
    \/ SR_Save(FirstWorker)
    \/ SR_GetSession(FirstWorker)
    \/ SR_CreateReview(FirstWorker)
    \/ SR_SessionSave(FirstWorker)
    \/ SR_Return(FirstWorker)

SpecStats == Init /\ [][NextStats]_vars

\* Invitations are created one after another. The draws are random: a code
\* that could be drawn in every pass of a loop that runs on is drawn at last.
NextCode ==
    \/ \E u \in People : GC_Start(u)
    \/ \E c \in Codes : GC_Draw(c)

SpecCode ==
    /\ Init
    /\ [][NextCode]_vars
    /\ \A c \in Codes : WF_vars(GC_Draw(c))

\* One record, fresh, reviewed again and again.
InitSeq ==
    /\ clock = 0
    /\ InitSchedFresh
    /\ InitDb
    /\ InitHandlers
    /\ InitDueIdle
    /\ InitShare
    /\ InitGenIdle

NextSeq ==
    \/ Tick
    \/ \E q \in Qualities : steps < MaxSteps /\ ScheduleCall(q)

SpecSeq == InitSeq /\ [][NextSeq]_vars

\* The scheduler as a function: one call on any record.
InitFn ==
    /\ clock = 0
    /\ progress \in [ease_factor : MinEase .. MaxEase, interval : 1 .. MaxInterval,
                     repetitions : 0 .. MaxReps, next_review : {0}]
    /\ prior = progress
    /\ quality = 0
    /\ calledAt = 0
    /\ steps = 0
    /\ history = <<>>
    /\ InitDb
    /\ InitHandlers
    /\ InitDueIdle
    /\ InitShare
    /\ InitGenIdle

NextFn ==
    \/ Tick
    \/ \E q \in Qualities : steps = 0 /\ ScheduleCall(q)

SpecFn == InitFn /\ [][NextFn]_vars

\* The due-card query over every content of the decks, at every time.
InitDue ==
    /\ clock \in 0 .. MaxNextReview
    /\ dueRows \in [DueCardIds -> [deck : Decks, next_review : 0 .. MaxNextReview]]
    /\ due = NoDue
    /\ InitSchedFresh
    /\ InitDb
    /\ InitHandlers
    /\ InitShare
    /\ InitGenIdle

NextDue ==
    \/ Tick
    \/ \E d \in Decks : GetDueCards(d)

SpecDue == InitDue /\ [][NextDue]_vars

\* Partnerships and shared decks, within the first day of the invitations
\* (their expiry is the matter of SpecInvite).
NextShare ==
    \/ \E u \in People : Invite(u)
    \/ \E code \in 1 .. MaxInvitations, u \in People : Accept(code, u)
    \/ \E p \in 1 .. MaxPartnerships, d \in Decks : AddDeck(p, d)
    \/ \E p \in 1 .. MaxPartnerships : Dissolve(p)
    \/ \E u \in People \ Users : DeleteUser(u)

SpecShare == Init /\ [][NextShare]_vars

\* Invitations over their whole life.
NextInvite ==
    \/ Later
    \/ \E u \in People : Invite(u)
    \/ \E code \in 1 .. MaxInvitations, u \in People : Accept(code, u)
    \/ \E u \in People \ Users : DeleteUser(u)

SpecInvite == Init /\ [][NextInvite]_vars

\* Study requests, one at a time, while two users are partners: the state
\* after the invitation of a by b was accepted.
InitGate ==
    /\ clock = 0
    /\ InitSchedFresh
    /\ InitDb
    /\ InitHandlers
    /\ InitDueIdle
    /\ InitGenIdle
    /\ accounts = People
    /\ \E a, b \in People :
          /\ a # b
          /\ partnerships = <<[user_a |-> a, user_b |-> b, is_active |-> TRUE,
                               decks |-> {}, deleted |-> FALSE]>>
          /\ invitations = <<[inviter |-> a, expires_at |-> InvitationDays,
                              accepted_by |-> Some(b), accepted_at |-> Some(0),
                              deleted |-> FALSE]>>

NextGate ==
    \/ NextSerial
    \/ \E p \in 1 .. MaxPartnerships, d \in Decks : AddDeck(p, d)
    \/ \E p \in 1 .. MaxPartnerships : Dissolve(p)

SpecGate == InitGate /\ [][NextGate]_vars


\* ------------------------------------------------------------------ claims

\* C1: a call with quality < 3 sets repetitions = 0 and interval = 1 whatever
\* the record held; a call with quality >= 3 sets interval = 1 when the prior
\* repetitions is 0, 6 when it is 1, round(prior interval * prior ease_factor)
\* when it is 2 or more, and adds one to repetitions.
C1_IntervalAndRepetitions ==
    steps > 0 =>
        IF quality < 3
          THEN progress.repetitions = 0 /\ progress.interval = 1
          ELSE /\ prior.repetitions = 0 => progress.interval = 1
               /\ prior.repetitions = 1 => progress.interval = 6
               /\ prior.repetitions >= 2 =>
                      progress.interval =
                          PyRound(prior.interval * prior.ease_factor, 100)
               /\ progress.repetitions = prior.repetitions + 1

\* A third success in a row: 6 days at ease 2.7 become round(16.2) = 16.
C1_Witness ==
    /\ steps = 1
    /\ quality = 4
    /\ prior.repetitions = 2
    /\ prior.interval = 6
    /\ prior.ease_factor = 270
    /\ progress.interval = 16
    /\ progress.repetitions = 3

\* C2: whatever reviews a fresh record goes through, ease_factor >= 1.3,
\* interval >= 1 and repetitions >= 0.
C2_FieldRanges ==
    /\ progress.ease_factor >= 130
    /\ progress.interval >= 1
    /\ progress.repetitions >= 0

\* The floor acts: the adjustment would have taken the ease factor below 1.3.
C2_Witness ==
    /\ steps > 0
    /\ prior.ease_factor + EaseDelta(quality) < 130
    /\ progress.ease_factor = 130
    /\ progress.interval >= 1

\* C3, as stated: quality 4 leaves the ease factor unchanged, quality 5
\* increases it, every quality <= 3 decreases it.
C3_Original ==
    steps > 0 =>
        /\ quality = 4 => progress.ease_factor = prior.ease_factor
        /\ quality = 5 => progress.ease_factor > prior.ease_factor
        /\ quality <= 3 => progress.ease_factor < prior.ease_factor

\* C3, amended: quality 4 leaves the ease factor unchanged, quality 5 increases
\* it, a quality <= 3 decreases it when the prior ease factor is above the
\* floor 1.3 and leaves it at 1.3 when it is at the floor; which branch the
\* repetitions take plays no part.
C3_EaseByQuality ==
    steps > 0 =>
        /\ quality = 4 => progress.ease_factor = prior.ease_factor
        /\ quality = 5 => progress.ease_factor > prior.ease_factor
        /\ (quality <= 3 /\ prior.ease_factor > 130) =>
               progress.ease_factor < prior.ease_factor
        /\ (quality <= 3 /\ prior.ease_factor = 130) =>
               progress.ease_factor = 130

\* A passing review with quality 3 of a record at the floor.
C3_Witness ==
    /\ steps = 1
    /\ quality = 3
    /\ prior.ease_factor = 130
    /\ prior.repetitions = 2
    /\ progress.ease_factor = 130
    /\ progress.repetitions = 3

\* C5: next_review is the time of the call plus the interval the call
\* computed, not the interval the record held before.
C5_NextReview ==
    steps > 0 => progress.next_review = calledAt + progress.interval

\* On day 1 a record with interval 6 is given interval 15: due on day 16.
C5_Witness ==
    /\ steps = 1
    /\ calledAt = 1
    /\ prior.interval = 6
    /\ progress.interval = 15
    /\ progress.next_review = 16

\* The scheduling fields a review decides without the clock.
Core(p) == <<p.ease_factor, p.interval, p.repetitions>>

\* C6: when two submissions for the same card have both completed, the card
\* holds what the two reviews give applied one after the other, in one order
\* or the other (the card was fresh before them).
C6_Serialized ==
    (/\ received = 2
     /\ \A w \in Workers : pc[w] = "done" /\ resp[w].code = "OK"
     /\ req[1].card_id = req[2].card_id)
    =>
        Core(cards[req[1].card_id]) \in
            {Core(calculate_next_review(
                      calculate_next_review(Fresh(0), req[1].quality.val, 0),
                      req[2].quality.val, 0)),
             Core(calculate_next_review(
                      calculate_next_review(Fresh(0), req[2].quality.val, 0),
                      req[1].quality.val, 0))}

\* C7: a completed request has written all of its review or none of it: one
\* that ended in an error wrote nothing, and the Review row, the progress
\* update and the counter increment come together.
C7_Atomic ==
    \A w \in Workers :
        pc[w] = "done" =>
            /\ resp[w].code # "OK" => committed[w] = {}
            /\ "review" \in committed[w] <=> "counter" \in committed[w]
            /\ "review" \in committed[w] => "progress" \in committed[w]

\* C8: the step of a review by user u of card c, in whichever direction d it
\* was studied, leaves the scheduling state of every other (user, card,
\* direction) as it was.
C8_Frame ==
    [][\A w \in Workers :
          (pc[w] = "save" /\ pc'[w] # "save") =>
              \A d \in Directions :
                  \A u2 \in Users, c2 \in Cards, d2 \in Directions :
                      <<u2, c2, d2>> # <<req[w].user, req[w].card_id, d>> =>
                          ProgressOf(u2, c2, d2)' = ProgressOf(u2, c2, d2)]_vars

\* A quality the interface accepts: a JSON integer from 0 to 5.
IntegerInRange(q) == q.kind = "int" /\ q.val >= 0 /\ q.val <= 5

\* C9: a request for a card of the user whose quality is missing, is not an
\* integer or is outside 0..5 ends with INVALID_INPUT and writes nothing.
C9_Rejected ==
    \A w \in Workers :
        (/\ pc[w] # "idle"
         /\ req[w].json_ok
         /\ CardFound(req[w].user, req[w].card_id)
         /\ ~IntegerInRange(req[w].quality))
        =>
            /\ pc[w] = "done"
            /\ resp[w].code = "INVALID_INPUT"
            /\ committed[w] = {}

\* C10 (requests handled one at a time): a request that names a session saves the scheduler's result for the
\* card; when the lookup then finds no such session of the user, the request
\* ends with success and the saved progress, and neither step adds a Review
\* row or changes a session.
C10_MissingSession ==
    [][\A w \in Workers :
          /\ (pc[w] = "save" /\ pc'[w] # "save" /\ Truthy(req[w].session_id)) =>
                /\ cards' = [cards EXCEPT ![req[w].card_id] =
                      calculate_next_review(card[w], req[w].quality.val, clock)]
                /\ card'[w] = cards'[req[w].card_id]
                /\ reviews' = reviews
                /\ sessions' = sessions
          /\ (/\ pc[w] = "session" /\ pc'[w] # "session"
              /\ Truthy(req[w].session_id)
              /\ ~SessionFound(req[w].user, req[w].session_id[1])) =>
                /\ pc'[w] = "done"
                /\ resp'[w] = [code |-> "OK", data |-> card[w]]
                /\ committed'[w] = {"progress"}
                /\ UNCHANGED dbVars]_vars

\* A request naming another user's session has completed: the card holds the
\* new progress, and there is no Review row and no counted card.
C10_Witness ==
    \E w \in Workers :
        /\ pc[w] = "done"
        /\ resp[w].code = "OK"
        /\ req[w].session_id = Some(1)
        /\ Len(sessions) = 1
        /\ sessions[1].user # req[w].user
        /\ sessions[1].cards_studied = 0
        /\ cards[req[w].card_id] = resp[w].data
        /\ cards[req[w].card_id].repetitions = 1
        /\ reviews = <<>>


\* C11: a submission whose review was dropped because its session reference
\* is invalid ends with an outcome that differs from the outcome of a
\* submission whose review was recorded.
C11_OmissionObservable ==
    \A w1, w2 \in Workers :
        (/\ pc[w1] = "done" /\ pc[w2] = "done"
         /\ "review" \in committed[w1]
         /\ Truthy(req[w2].session_id)
         /\ committed[w2] = {"progress"})
        => resp[w1].code # resp[w2].code

\* The Review rows of session s.
ReviewsOf(s) == {i \in DOMAIN reviews : reviews[i].session = s}

\* C12 (requests handled one at a time): whenever no request is in flight,
\* each session's cards_studied is the number of Review rows of the session.
C12_CounterMatchesRows ==
    pc[FirstWorker] \in {"idle", "done"} =>
        \A s \in DOMAIN sessions :
            sessions[s].cards_studied = Cardinality(ReviewsOf(s))

\* Two reviews were recorded in one session, which counts two cards.
C12_Witness ==
    /\ pc[FirstWorker] = "done"
    /\ Len(sessions) = 1
    /\ sessions[1].cards_studied = 2
    /\ Cardinality(ReviewsOf(1)) = 2


\* The elements of a sequence.
Range(s) == {s[i] : i \in DOMAIN s}

\* C13: the due-card query for a deck at time T returns exactly the cards of
\* the deck with next_review <= T, each once, in ascending order of
\* next_review.
C13_DueCards ==
    due.deck # 0 =>
        /\ Range(due.cards) =
               {c \in DueCardIds : /\ dueRows[c].deck = due.deck
                                   /\ dueRows[c].next_review <= due.as_of}
        /\ \A i, j \in DOMAIN due.cards : i # j => due.cards[i] # due.cards[j]
        /\ \A i, j \in DOMAIN due.cards :
               i < j => dueRows[due.cards[i]].next_review
                            <= dueRows[due.cards[j]].next_review

\* Cards due at T - 2, T - 1 and T + 1: the query at T returns the first two,
\* the earlier first.
C13_Witness ==
    /\ due.deck = 1
    /\ due.as_of = 2
    /\ dueRows[1] = [deck |-> 1, next_review |-> 1]
    /\ dueRows[2] = [deck |-> 1, next_review |-> 0]
    /\ dueRows[3] = [deck |-> 1, next_review |-> 3]
    /\ due.cards = <<2, 1>>

\* C14: among due cards with equal next_review, the card with the smaller id
\* comes first.
C14_TiesByCardId ==
    \A i, j \in DOMAIN due.cards :
        (/\ i < j
         /\ dueRows[due.cards[i]].next_review = dueRows[due.cards[j]].next_review)
        => due.cards[i] < due.cards[j]


\* C15: can_edit(deck, user) is true exactly when user is the deck's creator,
\* or its owner, or a member of at least one active partnership the deck
\* belongs to, also when the deck is attached to more than one partnership.
C15_CanEdit ==
    \A d \in Decks, u \in accounts :
        can_edit(d, u) <=>
            \/ DeckCreator[d] = Some(u)
            \/ DeckUser[d] = u
            \/ \E i \in DOMAIN partnerships :
                  /\ ~partnerships[i].deleted
                  /\ partnerships[i].is_active
                  /\ d \in partnerships[i].decks
                  /\ u \in {partnerships[i].user_a, partnerships[i].user_b}

\* Partnership p links a and b.
Between(p, a, b) == {p.user_a, p.user_b} = {a, b}

\* C16: for a deck created by a and a user b who is neither its creator nor
\* its owner: a can edit in every state; b cannot while the deck is in no
\* active partnership; when the active partnership of a and b adds the deck,
\* until then in no partnership, b can edit; when that partnership, the only
\* one the deck is in, is dissolved, its decks are cleared, b cannot edit any
\* more, and the deck's cards are untouched.
C16_ShareLifecycle ==
    [][\A d \in Decks, a, b \in People :
          (/\ DeckCreator[d] = Some(a)
           /\ b # a
           /\ DeckUser[d] # b)
          =>
          /\ can_edit(d, a) /\ can_edit(d, a)'
          /\ ActivePartnershipsOf(d) = {} => ~can_edit(d, b)
          /\ \A p \in DOMAIN partnerships :
                (/\ ActivePartnershipsOf(d) = {}
                 /\ Between(partnerships[p], a, b)
                 /\ partnerships'[p].is_active
                 /\ d \in partnerships'[p].decks)
                => can_edit(d, b)'
          /\ \A p \in DOMAIN partnerships :
                (/\ Between(partnerships[p], a, b)
                 /\ ActivePartnershipsOf(d) = {p}
                 /\ ~partnerships'[p].is_active
                 /\ ~partnerships'[p].deleted)
                => /\ ~can_edit(d, b)'
                   /\ partnerships'[p].decks = {}
                   /\ cards' = cards]_vars

C16_Witness ==
    /\ Len(partnerships) = 1
    /\ partnerships[1] = [user_a |-> "A", user_b |-> "B", is_active |-> TRUE,
                          decks |-> {1}, deleted |-> FALSE]
    /\ can_edit(1, "A")
    /\ can_edit(1, "B")
    /\ ~can_edit(2, "C")

\* C17: a review submission passes the card lookup exactly when the resolver
\* lets the user view the card's deck; it is answered NOT_FOUND exactly when
\* the resolver denies the user.
C17_GateIsResolver ==
    [][\A w \in Workers :
          (pc[w] = "idle" /\ pc'[w] # "idle")
          => ((pc'[w] = "done" /\ resp'[w].code = "NOT_FOUND")
                 <=> ~can_view(CardDeck[req'[w].card_id], req'[w].user))]_vars

\* C18: no two active partnerships link the same two users, in either order.
C18_OneActivePerPair ==
    \A i, j \in DOMAIN partnerships :
        (/\ i # j
         /\ ~partnerships[i].deleted /\ ~partnerships[j].deleted
         /\ partnerships[i].is_active /\ partnerships[j].is_active)
        => {partnerships[i].user_a, partnerships[i].user_b}
               # {partnerships[j].user_a, partnerships[j].user_b}

\* A invited B, then B invited A: both invitations are accepted and the one
\* partnership serves both.
C18_Witness ==
    /\ Len(invitations) = 2
    /\ invitations[1].inviter = "A" /\ invitations[1].accepted_by = Some("B")
    /\ invitations[2].inviter = "B" /\ invitations[2].accepted_by = Some("A")
    /\ Len(partnerships) = 1
    /\ partnerships[1].is_active

\* C19: once an invitation has been accepted it is not valid in any later
\* state.
C19_RedeemedOnce ==
    [][\A code \in DOMAIN invitations :
          (/\ ~invitations[code].deleted
           /\ invitations[code].accepted_by # None
           /\ ~invitations'[code].deleted)
          => ~is_valid(invitations'[code], clock')]_vars

\* C20: an invitation is valid exactly when accepted_by is unset and now has
\* not passed expires_at, the instant now = expires_at included.
C20_ValidWhilePending ==
    \A code \in DOMAIN invitations :
        ~invitations[code].deleted =>
            (is_valid(invitations[code], clock) <=>
                /\ invitations[code].accepted_by = None
                /\ ~(clock > invitations[code].expires_at))


\* The number of most recent reviews in a row with quality >= 3.
RECURSIVE Streak(_)
Streak(h) ==
    IF h = <<>> THEN 0
    ELSE IF h[Len(h)] >= 3 THEN 1 + Streak(SubSeq(h, 1, Len(h) - 1))
    ELSE 0

\* C25: after any sequence of reviews of a fresh record, repetitions is the
\* length of the current success streak; repetitions 0 or 1 goes with
\* interval 1 and repetitions 2 with interval 6.
C25_Streak ==
    /\ progress.repetitions = Streak(history)
    /\ progress.repetitions \in {0, 1} => progress.interval = 1
    /\ progress.repetitions = 2 => progress.interval = 6

\* Two successes, a failure, two successes: the streak restarted.
C25_Witness ==
    /\ history = <<4, 4, 1, 5, 5>>
    /\ progress.repetitions = 2
    /\ progress.interval = 6


C24_GetPartner ==
    \A p \in DOMAIN partnerships : \A u \in People :
        LET row == partnerships[p] IN
        /\ get_partner(row, row.user_a) = [ok |-> TRUE, user |-> row.user_b]
        /\ get_partner(row, row.user_b) = [ok |-> TRUE, user |-> row.user_a]
        /\ u \notin {row.user_a, row.user_b} =>
               /\ ~get_partner(row, u).ok
               /\ get_partner(row, u).user \notin People
        /\ get_partner(row, u).ok <=> has_member(row, u)

C24_Witness ==
    /\ Len(partnerships) = 1
    /\ partnerships[1].user_a = "B" /\ partnerships[1].user_b = "C"
    /\ get_partner(partnerships[1], "B").user = "C"
    /\ get_partner(partnerships[1], "C").user = "B"
    /\ ~get_partner(partnerships[1], "A").ok


\* C23: in the statistics over all decks a user can reach, a deck the user
\* owns is in the personal bucket only, also when it is shared; the personal
\* and the shared decks are disjoint, and the two buckets add up to the totals
\* of decks and of cards.
C23_NoDoubleCount ==
    \A u \in accounts :
        LET stats == user_stats(u) IN
        /\ personal_decks(u) \cap shared_decks(u) = {}
        /\ \A d \in Decks :
              (DeckUser[d] = u /\ is_shared(d)) =>
                  d \in personal_decks(u) /\ d \notin shared_decks(u)
        /\ stats.personal_decks + stats.shared_decks = stats.total_decks
        /\ stats.personal_cards + stats.shared_cards = stats.total_cards

\* A and B are partners and share both decks: A's own deck 1 counts as
\* personal, B's deck 2 as shared.
C23_Witness ==
    /\ Len(partnerships) = 1
    /\ partnerships[1].is_active
    /\ partnerships[1].decks = {1, 2}
    /\ Between(partnerships[1], "A", "B")
    /\ user_stats("A").personal_decks = 1
    /\ user_stats("A").shared_decks = 1
    /\ user_stats("A").total_decks = 2
    /\ user_stats("A").total_cards = 2


\* The review-derived fields of a statistics result.
ReviewPart(stats) ==
    [total_reviews |-> stats.total_reviews,
     average_quality |-> stats.average_quality,
     study_streak_days |-> stats.study_streak_days,
     recent_activity |-> stats.recent_activity]

\* The reviews of user u's own sessions on cards of the decks ds.
OwnReviews(u, ds) ==
    {i \in DOMAIN reviews :
        /\ sessions[reviews[i].session].user = u
        /\ CardDeck[reviews[i].card] \in ds}

\* C26: the reviews that the statistics of a user are computed from are
\* those of the user's own sessions, over all decks, for one deck (as
\* deck_stats asks) and for a set of decks, and a review recorded in another
\* user's session changes none of the review-derived statistics.
C26_OwnReviewsOnly ==
    [][\A u \in Users :
          /\ StatsReviews(u, NoDeck, None) = OwnReviews(u, Decks)
          /\ \A d \in Decks :
                DeckFound(u, d) => StatsReviews(u, d, None) = OwnReviews(u, {d})
          /\ \A ds \in SUBSET Decks :
                StatsReviews(u, NoDeck, Some(ds)) = OwnReviews(u, ds)
          /\ (/\ Len(reviews') > Len(reviews)
              /\ sessions'[reviews'[Len(reviews')].session].user # u)
             => /\ ReviewPart(user_stats(u))' = ReviewPart(user_stats(u))
                /\ \A d \in Decks : deck_stats(u, d)' = deck_stats(u, d)
                /\ \A ds \in SUBSET Decks :
                      ReviewPart(get_study_stats(u, NoDeck, Some(ds), clock))'
                          = ReviewPart(get_study_stats(u, NoDeck, Some(ds), clock))]_vars

\* A reviewed twice in A's session: A's statistics count the two reviews,
\* B's count none, over all decks and for B's deck.
C26_Witness ==
    /\ Len(reviews) = 2
    /\ sessions[1].user = "A"
    /\ user_stats("A").total_reviews = 2
    /\ deck_stats("A", 1).data.study_streak_days = 1
    /\ user_stats("B").total_reviews = 0
    /\ deck_stats("B", 2).data.total_reviews = 0
    /\ deck_stats("B", 1).code = "NOT_FOUND"


\* C22: a call of generate_code always ends: it returns a code that no
\* invitation has, or it gives up with an error after a bounded number of
\* draws.
C22_Terminates == (gen.pc = "draw") ~> (gen.pc # "draw")

====
